---------------------------- MODULE Spec2Model ----------------------------
(***************************************************************************)
(* Model of app.py (lancador de NLs): the text-repair, window, line-item   *)
(* and edited-text parsers as operators over character strings, and the    *)
(* Streamlit launch flow as a state machine.                               *)
(*                                                                         *)
(* Strings are TLA+ strings; positions are 1-based.  A matcher returns the *)
(* position of the last character it matched (Python's m.end()), or       *)
(* NoMatch.  Python's re semantics (leftmost match, greedy and lazy       *)
(* quantifiers with backtracking, non-overlapping scans of re.sub and     *)
(* re.finditer) are written out per pattern.                              *)
(***************************************************************************)
EXTENDS Integers, Sequences, FiniteSets, TLC

VARIABLES
    pc,            \* position of the run within the operation being applied
    texto,         \* the input text of the operation
    reparado,      \* _fix_numbers_glitches(texto)
    reparado2,     \* _fix_numbers_glitches applied to its own output
    janela,        \* the window returned by _recorte_janela
    matches,       \* the allowed matches collected by _extract_tributos_only
    rows,          \* the rows returned by _extract_tributos_only
    data,          \* the NLData rendered to the editable text
    campos,        \* parse_texto_editado's locals proc, nl, cgm, mat, itens
    data_editada,  \* what parse_texto_editado did: raised, or the NLData
    data_atual,    \* st.session_state.data_atual: None or the extracted NLData
    texto_editado, \* the content of the text area
    confirmar_lancamento,  \* st.session_state.confirmar_lancamento
    usuario,       \* the user-name input
    senha,         \* the password input
    logs,          \* st.session_state.logs: the bot steps logged
    bot,           \* every bot step attempted so far, in order
    mensagem,      \* the message the last run of main showed
    cliques,       \* launch-button clicks so far
    hoje,          \* dt.date.today() when lancar is called
    lancamentos    \* the forms lancar submitted, in order

repairVars == <<reparado, reparado2>>

pdfVars == <<janela, matches, rows>>

editVars == <<data, campos, data_editada>>

uiVars == <<data_atual, texto_editado, confirmar_lancamento, usuario, senha,
            logs, bot, mensagem, cliques>>

botVars == <<hoje, lancamentos>>

vars == <<pc, texto, repairVars, pdfVars, editVars, uiVars, botVars>>

\* NLData() with its defaults (lines 61-68); an NLItem is a record of
\* descricao, valor_rs and valor_ufima (lines 54-59).
NLData(proc, nl, cgm, mat, itens) ==
    [processo_origem |-> proc, numero_nl |-> nl, cgm |-> cgm,
     matricula |-> mat, itens |-> itens]

NLItem(desc, vrs, vuf) ==
    [descricao |-> desc, valor_rs |-> vrs, valor_ufima |-> vuf]

NoData == NLData("", "", "", "", <<>>)

NoCampos == [proc |-> "", nl |-> "", cgm |-> "", mat |-> "", itens |-> <<>>]

NotCalled == [raised |-> FALSE, data |-> NoData]

RepairIdle == reparado = "" /\ reparado2 = ""

PdfIdle == janela = "" /\ matches = <<>> /\ rows = <<>>

EditIdle == data = NoData /\ campos = NoCampos /\ data_editada = NotCalled

BotIdle == hoje = 0 /\ lancamentos = <<>>

None == [none |-> TRUE]

UiIdle ==
    /\ data_atual = None
    /\ texto_editado = ""
    /\ confirmar_lancamento = FALSE
    /\ usuario = ""
    /\ senha = ""
    /\ logs = <<>>
    /\ bot = <<>>
    /\ mensagem = ""
    /\ cliques = 0

NoMatch == 0 - 1

(***************************************************************************)
(* Characters and character classes of Python's re on str.                 *)
(***************************************************************************)
Ch(s, i) == IF i >= 1 /\ i <= Len(s) THEN SubSeq(s, i, i) ELSE ""

\* Python's s[a-1:b] for a >= 1: the characters a..b, clamped to the string.
Slice(s, a, b) ==
    LET lo == IF a < 1 THEN 1 ELSE a
        hi == IF b > Len(s) THEN Len(s) ELSE b
    IN  IF lo > hi THEN "" ELSE SubSeq(s, lo, hi)

Digits == {"0", "1", "2", "3", "4", "5", "6", "7", "8", "9"}

IsDigit(c) == c \in Digits

IsSpace(c) == c \in {" ", "\t", "\n", "\r", "\f"}

DigitsAt(s, i, n) == \A k \in 0..(n - 1) : IsDigit(Ch(s, i + k))

Min(S) == CHOOSE x \in S : \A y \in S : x <= y

Max(S) == CHOOSE x \in S : \A y \in S : x >= y

RECURSIVE SkipSpaces(_, _)
SkipSpaces(s, i) == IF IsSpace(Ch(s, i)) THEN SkipSpaces(s, i + 1) ELSE i

RECURSIVE CountDigits(_, _)
CountDigits(s, i) == IF IsDigit(Ch(s, i)) THEN 1 + CountDigits(s, i + 1) ELSE 0

(***************************************************************************)
(* REAL = \d{1,3}(?:\.\d{3})*,\d{2} matched at i.  The pattern that        *)
(* follows the leading digits starts with "." or ",", so \d{1,3} can only  *)
(* succeed by taking every leading digit; likewise each group.             *)
(***************************************************************************)
RECURSIVE RealGroups(_, _)
RealGroups(s, j) ==
    IF Ch(s, j) = "." /\ DigitsAt(s, j + 1, 3) THEN RealGroups(s, j + 4)
    ELSE IF Ch(s, j) = "," /\ DigitsAt(s, j + 1, 2) THEN j + 2
    ELSE NoMatch

RealEnd(s, i) ==
    LET d == CountDigits(s, i)
    IN  IF d >= 1 /\ d <= 3 THEN RealGroups(s, i + d) ELSE NoMatch

(***************************************************************************)
(* PDFParser._fix_numbers_glitches: seven re.sub passes, in order.         *)
(* RuleEnd(r, s, i) is the end of rule r's match starting at i;            *)
(* RuleRepl(r, s, i, e) is its replacement text.                           *)
(***************************************************************************)
RuleEnd(r, s, i) ==
    CASE r = 1 ->
           \* (R\$\s*)(\d)\s(\d,\d{2})
           LET j == SkipSpaces(s, i + 2)
           IN  IF /\ Slice(s, i, i + 1) = "R$"
                  /\ IsDigit(Ch(s, j)) /\ IsSpace(Ch(s, j + 1))
                  /\ IsDigit(Ch(s, j + 2)) /\ Ch(s, j + 3) = ","
                  /\ DigitsAt(s, j + 4, 2)
               THEN j + 5 ELSE NoMatch
      [] r = 2 ->
           \* (R\$\s*)(\d)\s(\d{2},\d{2})
           LET j == SkipSpaces(s, i + 2)
           IN  IF /\ Slice(s, i, i + 1) = "R$"
                  /\ IsDigit(Ch(s, j)) /\ IsSpace(Ch(s, j + 1))
                  /\ DigitsAt(s, j + 2, 2) /\ Ch(s, j + 4) = ","
                  /\ DigitsAt(s, j + 5, 2)
               THEN j + 6 ELSE NoMatch
      [] r = 3 ->
           \* (?<!\d)(\d)\s(\d{3},\d{2})(?!\d)
           IF /\ ~IsDigit(Ch(s, i - 1))
              /\ IsDigit(Ch(s, i)) /\ IsSpace(Ch(s, i + 1))
              /\ DigitsAt(s, i + 2, 3) /\ Ch(s, i + 5) = ","
              /\ DigitsAt(s, i + 6, 2) /\ ~IsDigit(Ch(s, i + 8))
           THEN i + 7 ELSE NoMatch
      [] r = 4 ->
           \* (?<!\d)(\d)\s(\d\.\d{3},\d{2})
           IF /\ ~IsDigit(Ch(s, i - 1))
              /\ IsDigit(Ch(s, i)) /\ IsSpace(Ch(s, i + 1))
              /\ IsDigit(Ch(s, i + 2)) /\ Ch(s, i + 3) = "."
              /\ DigitsAt(s, i + 4, 3) /\ Ch(s, i + 7) = ","
              /\ DigitsAt(s, i + 8, 2)
           THEN i + 9 ELSE NoMatch
      [] r = 5 ->
           \* (?<!\d)(\d)\s\.(\d{3},\d{2})
           IF /\ ~IsDigit(Ch(s, i - 1))
              /\ IsDigit(Ch(s, i)) /\ IsSpace(Ch(s, i + 1))
              /\ Ch(s, i + 2) = "." /\ DigitsAt(s, i + 3, 3)
              /\ Ch(s, i + 6) = "," /\ DigitsAt(s, i + 7, 2)
           THEN i + 8 ELSE NoMatch
      [] r = 6 ->
           \* (?<!\d)(\d{1,3}(?:\.\d{3})*,\d{2})\s*R\$
           LET e == IF IsDigit(Ch(s, i - 1)) THEN NoMatch ELSE RealEnd(s, i)
               j == SkipSpaces(s, e + 1)
           IN  IF e # NoMatch /\ Slice(s, j, j + 1) = "R$"
               THEN j + 1 ELSE NoMatch
      [] r = 7 ->
           \* [ \t]+
           LET RECURSIVE Run(_)
               Run(j) == IF Ch(s, j) \in {" ", "\t"} THEN Run(j + 1) ELSE j
           IN  IF Ch(s, i) \in {" ", "\t"} THEN Run(i) - 1 ELSE NoMatch
      [] r = 8 ->
           \* (\d)\s(\d{3},\d{2})   (line 181)
           IF /\ IsDigit(Ch(s, i)) /\ IsSpace(Ch(s, i + 1))
              /\ DigitsAt(s, i + 2, 3) /\ Ch(s, i + 5) = ","
              /\ DigitsAt(s, i + 6, 2)
           THEN i + 7 ELSE NoMatch
      [] r = 9 ->
           \* \s+   (line 155)
           IF IsSpace(Ch(s, i)) THEN SkipSpaces(s, i) - 1 ELSE NoMatch
      [] r = 10 ->
           \* \s{2,}   (line 169)
           IF IsSpace(Ch(s, i)) /\ IsSpace(Ch(s, i + 1))
           THEN SkipSpaces(s, i) - 1 ELSE NoMatch
      [] OTHER -> NoMatch

RuleRepl(r, s, i, e) ==
    CASE r = 1 ->  \* \1\2\3 : the whitespace between \2 and \3 is dropped
           Slice(s, i, e - 5) \o Slice(s, e - 3, e)
      [] r = 2 -> Slice(s, i, e - 6) \o Slice(s, e - 4, e)
      [] r = 3 -> Ch(s, i) \o "." \o Slice(s, i + 2, e)
      [] r = 4 -> Ch(s, i) \o Slice(s, i + 2, e)
      [] r = 5 -> Ch(s, i) \o "." \o Slice(s, i + 3, e)
      [] r = 6 -> "R$ " \o Slice(s, i, RealEnd(s, i))
      [] r = 8 -> Ch(s, i) \o "." \o Slice(s, i + 2, e)
      [] OTHER -> " "

\* re.sub: the leftmost match at or after i is replaced, then the scan goes on
\* after it (matches never overlap); the text between matches is copied.
\* ends[j] is the end of the rule's match at j, or NoMatch.
RECURSIVE SubFrom(_, _, _, _)
SubFrom(r, s, i, ends) ==
    LET rest == {j \in DOMAIN ends : j >= i /\ ends[j] # NoMatch}
    IN  IF rest = {} THEN Slice(s, i, Len(s))
        ELSE Slice(s, i, Min(rest) - 1)
                 \o RuleRepl(r, s, Min(rest), ends[Min(rest)])
                 \o SubFrom(r, s, ends[Min(rest)] + 1, ends)

SubRule(r, s, i) ==
    SubFrom(r, s, i, [j \in i..Len(s) |-> RuleEnd(r, s, j)])

\* Lines 92-98: the rules r..7 applied in order, each to the text the one
\* before it left.
RECURSIVE FixFrom(_, _)
FixFrom(r, s) == IF r > 7 THEN s ELSE FixFrom(r + 1, SubRule(r, s, 1))

_fix_numbers_glitches(s) == FixFrom(1, s)

(***************************************************************************)
(* Case-insensitive literals (flags=re.I).  The model's texts are ASCII:   *)
(* accented letters of the source's literals are written unaccented.       *)
(***************************************************************************)
LowerMap ==
    [c \in {Ch("ABCDEFGHIJKLMNOPQRSTUVWXYZ", k) : k \in 1..26} |->
        Ch("abcdefghijklmnopqrstuvwxyz",
           CHOOSE k \in 1..26 : Ch("ABCDEFGHIJKLMNOPQRSTUVWXYZ", k) = c)]

LowerCh(c) == IF c \in DOMAIN LowerMap THEN LowerMap[c] ELSE c

RECURSIVE Lower(_)
Lower(s) == IF s = "" THEN "" ELSE LowerCh(Head(s)) \o Lower(Tail(s))

\* The lower-case literal lit matches at i, ignoring case.
LitAt(s, i, lit) ==
    /\ LowerCh(Ch(s, i)) = Ch(lit, 1)
    /\ Lower(Slice(s, i, i + Len(lit) - 1)) = lit

\* The position after the literal when it matches at i, else NoMatch.
AfterLit(s, i, lit) ==
    IF i # NoMatch /\ LitAt(s, i, lit) THEN i + Len(lit) ELSE NoMatch

\* \s* from i (NoMatch propagates).
AfterSpaces(s, i) == IF i = NoMatch THEN NoMatch ELSE SkipSpaces(s, i)

\* \s+ from i.
AfterSpaces1(s, i) ==
    IF i # NoMatch /\ IsSpace(Ch(s, i)) THEN SkipSpaces(s, i) ELSE NoMatch

\* REAL from i: the position after it.
AfterReal(s, i) ==
    IF i = NoMatch THEN NoMatch
    ELSE LET e == RealEnd(s, i) IN IF e = NoMatch THEN NoMatch ELSE e + 1

(***************************************************************************)
(* UF = \d+(?:[.,]\d{1,5}) followed by \s*UFIMA: \d+ takes every digit     *)
(* (a separator must follow) and \d{1,5} must reach the end of the digits  *)
(* (whitespace or UFIMA must follow), so one to five decimals.             *)
(* UfEnd is the last character of UF, UfimaEnd that of UFIMA(?:\(\s*s\s*\))? *)
(***************************************************************************)
UfEnd(s, i) ==
    LET d1 == CountDigits(s, i)
        d2 == CountDigits(s, i + d1 + 1)
    IN  IF /\ i # NoMatch
           /\ d1 >= 1
           /\ Ch(s, i + d1) \in {".", ","}
           /\ d2 >= 1 /\ d2 <= 5
           /\ LitAt(s, SkipSpaces(s, i + d1 + 1 + d2), "ufima")
        THEN i + d1 + d2 ELSE NoMatch

UfimaEnd(s, i) ==
    LET a == AfterLit(s, i, "ufima")
        b == AfterLit(s, AfterSpaces(s, AfterLit(s, a, "(")), "s")
        c == AfterLit(s, AfterSpaces(s, b), ")")
    IN  IF a = NoMatch THEN NoMatch
        ELSE IF c # NoMatch THEN c - 1 ELSE a - 1

(***************************************************************************)
(* PDFParser._recorte_janela                                               *)
(***************************************************************************)
\* Valor da UFIMA Corrente\s*:\s*R\$\s*REAL
IniEndRS(s, i) ==
    LET a == AfterLit(s, i, "valor da ufima corrente")
        b == AfterLit(s, AfterSpaces(s, a), ":")
        c == AfterLit(s, AfterSpaces(s, b), "r$")
        d == AfterReal(s, AfterSpaces(s, c))
    IN  IF d = NoMatch THEN NoMatch ELSE d - 1

\* Valor da UFIMA Corrente\s*:\s*REAL\s*R\$
IniEndSR(s, i) ==
    LET a == AfterLit(s, i, "valor da ufima corrente")
        b == AfterLit(s, AfterSpaces(s, a), ":")
        c == AfterReal(s, AfterSpaces(s, b))
        d == AfterLit(s, AfterSpaces(s, c), "r$")
    IN  IF d = NoMatch THEN NoMatch ELSE d - 1

\* Total Geral\s+R\$\s*REAL\s+UF\s*UFIMA(?:\(\s*s\s*\))?
FimEnd(s, i) ==
    LET a == AfterLit(s, i, "total geral")
        b == AfterLit(s, AfterSpaces1(s, a), "r$")
        c == AfterReal(s, AfterSpaces(s, b))
        u == AfterSpaces1(s, c)
        e == UfEnd(s, u)
    IN  IF c = NoMatch \/ u = NoMatch \/ e = NoMatch THEN NoMatch
        ELSE UfimaEnd(s, SkipSpaces(s, e + 1))

\* re.search: the end of the leftmost match, else NoMatch.
\* a or b: the first match when there is one, else the second.
OrElse(a, b) == IF a # NoMatch THEN a ELSE b

\* ini: the first pattern's first match, else the second pattern's.
IniEnd(s) ==
    OrElse(LET starts == {i \in 1..Len(s) : IniEndRS(s, i) # NoMatch}
           IN  IF starts = {} THEN NoMatch ELSE IniEndRS(s, Min(starts)),
           LET starts == {i \in 1..Len(s) : IniEndSR(s, i) # NoMatch}
           IN  IF starts = {} THEN NoMatch ELSE IniEndSR(s, Min(starts)))

\* A variant that stops at the first match of the end anchor.
LastFimFirstOnly(s, starts, fim) ==
    IF starts = {} THEN fim ELSE FimEnd(s, Min(starts))

\* for m in re.finditer(...): fim = m -- the end of the last match of the
\* scan over the positions starts where the pattern matches (each match
\* starts after the one before it ends), given the end fim of the last match
\* so far.
RECURSIVE LastFim(_, _, _)
LastFim(s, starts, fim) ==
    IF starts = {} THEN fim
    ELSE LET e == FimEnd(s, Min(starts))
         IN  LastFim(s, {j \in starts : j > e}, e)

\* A variant that cuts at the start anchor although no end anchor was found.
RecorteSemFim(s, ini, fim) ==
    IF ini # NoMatch
    THEN Slice(s, ini + 1, IF fim # NoMatch THEN fim ELSE Len(s))
    ELSE s

\* Lines 116-118: the window of the repaired text s, given the end ini of
\* the start anchor and the end fim of the last end anchor.
Recortado(s, ini, fim) ==
    IF ini # NoMatch /\ fim # NoMatch THEN Slice(s, ini + 1, fim) ELSE s

\* Lines 104-118, on the repaired text s.
RecorteDe(s) ==
    Recortado(s, IniEnd(s),
              LastFim(s, {j \in 1..Len(s) : FimEnd(s, j) # NoMatch}, NoMatch))

_recorte_janela(t) == RecorteDe(_fix_numbers_glitches(t))

(***************************************************************************)
(* PDFParser._extract_tributos_only                                        *)
(***************************************************************************)
\* <label>\s+Valor em R\$\s+Valor em UFIMA\(s\)\s*   (lines 152-153, re.I)
HeaderEnd(s, i, label) ==
    LET a == AfterLit(s, i, label)
        b == AfterLit(s, AfterSpaces1(s, a), "valor em r$")
        c == AfterLit(s, AfterSpaces1(s, b), "valor em ufima(s)")
    IN  IF c = NoMatch THEN NoMatch ELSE SkipSpaces(s, c) - 1

\* re.sub(<header>, "", s): every match from i on is removed.
RECURSIVE StripFrom(_, _, _, _)
StripFrom(s, i, label, starts) ==
    LET rest == {j \in starts : j >= i}
    IN  IF rest = {} THEN Slice(s, i, Len(s))
        ELSE LET j == Min(rest)
             IN  Slice(s, i, j - 1)
                     \o StripFrom(s, HeaderEnd(s, j, label) + 1, label, rest)

StripHeader(s, i, label) ==
    StripFrom(s, i, label, {j \in i..Len(s) : HeaderEnd(s, j, label) # NoMatch})

\* The tail of pat from k:
\*   \s+R\$\s*(?P<rs>REAL)\s+(?P<uf>UF)\s*UFIMA(?:\(\s*s\s*\))?
\* rsStart/rsEnd and ufStart/ufEnd delimit the groups, end is m.end().
TailRecord(s, rsStart, afterRs, ufStart, ufEnd) ==
    IF rsStart = NoMatch \/ afterRs = NoMatch \/ ufStart = NoMatch
       \/ ufEnd = NoMatch
    THEN [end |-> NoMatch]
    ELSE [end |-> UfimaEnd(s, SkipSpaces(s, ufEnd + 1)),
          rsStart |-> rsStart, rsEnd |-> afterRs - 1,
          ufStart |-> ufStart, ufEnd |-> ufEnd]

TailAt(s, k) ==
    LET rsStart == AfterSpaces(s, AfterLit(s, AfterSpaces1(s, k), "r$"))
        afterRs == AfterReal(s, rsStart)
        ufStart == AfterSpaces1(s, afterRs)
    IN  TailRecord(s, rsStart, afterRs, ufStart, UfEnd(s, ufStart))

TailMatches(s, k) == k # NoMatch /\ TailAt(s, k).end # NoMatch

\* \s*.+? from p, followed by the tail: the position k where the tail starts.
\* \s* is greedy (up to q) and .+? lazy (at least one character, never a line
\* break), so the first choice is the least k > q; when there is none, \s*
\* gives whitespace back and .+? takes one whitespace character, the tail
\* starting inside the whitespace run.
LazyChoice(ahead, back) ==
    IF ahead # {} THEN Min(ahead)
    ELSE IF back # {} THEN Max(back)
    ELSE NoMatch

\* The tail starts between p and q, or between q and the first line break
\* at or after q, which . cannot cross.
TailsBetween(s, p, q) ==
    {k \in (p + 1)..(q - 1) : Ch(s, k - 1) # "\n" /\ TailMatches(s, k)}

TailsAhead(s, q) ==
    {k \in (q + 1)..Min({x \in q..Len(s) : Ch(s, x) = "\n"} \cup {Len(s) + 1}) :
        TailMatches(s, k)}

LazyBody(s, p) ==
    IF p = NoMatch THEN NoMatch
    ELSE LazyChoice(TailsAhead(s, SkipSpaces(s, p)),
                    TailsBetween(s, p, SkipSpaces(s, p)))

\* (?P<desc>(?:ISS\s*-\s*.+?|Taxa(?:s)?\s+de\s+Obras(?:\s*-\s*.+?)?)) at i,
\* followed by the tail: the position where the tail starts (desc ends just
\* before it), else NoMatch.
ObrasEnd(s, obras, group) ==
    IF group # NoMatch THEN group
    ELSE IF TailMatches(s, obras) THEN obras
    ELSE NoMatch

DescEnd(s, i) ==
    LET iss   == AfterLit(s, AfterSpaces(s, AfterLit(s, i, "iss")), "-")
        taxa  == AfterLit(s, i, "taxa")
        taxas == IF AfterLit(s, taxa, "s") # NoMatch THEN taxa + 1 ELSE taxa
        obras == AfterLit(s, AfterSpaces1(s,
                     AfterLit(s, AfterSpaces1(s, taxas), "de")), "obras")
    IN  IF iss # NoMatch THEN LazyBody(s, iss)
        ELSE IF obras = NoMatch THEN NoMatch
        ELSE ObrasEnd(s, obras,
                      LazyBody(s, AfterLit(s, AfterSpaces(s, obras), "-")))

\* str.strip(chars)
RECURSIVE Strip(_, _)
Strip(s, chars) ==
    IF s = "" THEN ""
    ELSE IF Ch(s, 1) \in chars THEN Strip(Slice(s, 2, Len(s)), chars)
    ELSE IF Ch(s, Len(s)) \in chars THEN Strip(Slice(s, 1, Len(s) - 1), chars)
    ELSE s

Whitespace == {" ", "\t", "\n", "\r", "\f"}

\* str.replace(old, new): the occurrences of old, left to right, without
\* overlap.
RECURSIVE Replace(_, _, _)
Replace(s, old, new) ==
    LET at == {j \in 1..Len(s) : Slice(s, j, j + Len(old) - 1) = old}
    IN  IF at = {} THEN s
        ELSE Slice(s, 1, Min(at) - 1) \o new
                 \o Replace(Slice(s, Min(at) + Len(old), Len(s)), old, new)

\* The allow-list of lines 171-177, on the normalised description.
AllowAll(desc) == TRUE

Allow(desc) ==
    \/ Slice(Lower(desc), 1, 5) = "iss -"
    \/ Lower(desc) = "taxas de obras"
    \/ Lower(desc) = "taxa de obras - vistoria residencial"
    \/ Lower(desc) = "taxa de obras - vistoria comercial"
    \/ Lower(desc) = "taxas de obras - renovacao de alvara"

\* The match of pat that starts at j (lines 169-183): its normalised
\* description, canonical amounts and m.start().
MatchRecord(s, j, k, m) ==
    [desc |-> Strip(Strip(SubRule(10, Slice(s, j, k - 1), 1), {" ", "-"}),
                    Whitespace),
     rs   |-> "R$ " \o SubRule(8, Replace(Slice(s, m.rsStart, m.rsEnd), " ", ""), 1),
     uf   |-> Replace(Slice(s, m.ufStart, m.ufEnd), ".", ",") \o " UFIMA(s)",
     pos  |-> j - 1,
     end  |-> m.end]

MatchFrom(s, j, k) == MatchRecord(s, j, k, TailAt(s, k))

MatchAt(s, j) == MatchFrom(s, j, DescEnd(s, j))

\* for m in pat.finditer(s): the allowed matches from i on, in text order.
\* starts holds the positions where pat matches.
RECURSIVE MatchesFrom(_, _)
MatchesAfter(s, starts, m) ==
    (IF Allow(m.desc) THEN <<m>> ELSE <<>>)
        \o MatchesFrom(s, {j \in starts : j > m.end})

MatchesFrom(s, starts) ==
    IF starts = {} THEN <<>>
    ELSE MatchesAfter(s, starts, MatchAt(s, Min(starts)))

Matches(s, i) == MatchesFrom(s, {j \in i..Len(s) : DescEnd(s, j) # NoMatch})

Key(m) == <<Lower(m.desc), m.rs>>

\* bykey after the loop of lines 186-190 over the matches ms, started from
\* the dict bykey (a sequence in insertion order, one entry per key).
KeepLatest(cur, m) == TRUE

Keep(cur, m) ==
    \/ Len(m.uf) > Len(cur.uf)
    \/ (Len(m.uf) = Len(cur.uf) /\ m.pos < cur.pos)

RECURSIVE ByKey(_, _)
ByKey(ms, bykey) ==
    IF ms = <<>> THEN bykey
    ELSE LET m == Head(ms)
             at == {x \in 1..Len(bykey) : Key(bykey[x]) = Key(m)}
         IN  IF at = {} THEN ByKey(Tail(ms), Append(bykey, m))
             ELSE LET x == CHOOSE y \in at : TRUE
                  IN  IF Keep(bykey[x], m)
                      THEN ByKey(Tail(ms), [bykey EXCEPT ![x] = m])
                      ELSE ByKey(Tail(ms), bykey)

\* sorted(..., key=lambda t: t[0]): ascending pos (the kept positions are
\* distinct, being starts of different matches).
Range(seq) == {seq[x] : x \in 1..Len(seq)}

RECURSIVE SortByPos(_)
SortByPos(entries) ==
    IF entries = {} THEN <<>>
    ELSE LET first == CHOOSE m \in entries : \A o \in entries : m.pos <= o.pos
         IN  <<first>> \o SortByPos(entries \ {first})

Ordered(bykey) == SortByPos(Range(bykey))

\* The text pat scans: headers stripped, repaired, whitespace collapsed.
Scanned(window_text) ==
    LET s1 == StripHeader(window_text, 1, "tributos para lancamento")
        s2 == StripHeader(s1, 1, "descricao das taxas de obras")
        s3 == _fix_numbers_glitches(s2)
    IN  SubRule(9, s3, 1)

\* Lines 167-183: the list matches.
AllowedMatches(window_text) == Matches(Scanned(window_text), 1)

\* Lines 185-195: the rows returned for the list matches.
RowsOf(ms) ==
    LET ordered == Ordered(ByKey(ms, <<>>))
    IN  [x \in 1..Len(ordered) |->
            <<ordered[x].desc, ordered[x].rs, ordered[x].uf>>]

_extract_tributos_only(window_text) == RowsOf(AllowedMatches(window_text))

(***************************************************************************)
(* main, lines 484-492: the editable text rendered from a record.          *)
(***************************************************************************)
RECURSIVE LinhasItens(_)
LinhasItens(itens) ==
    IF itens = <<>> THEN ""
    ELSE Head(itens).descricao \o " | " \o Head(itens).valor_rs \o " | "
             \o Head(itens).valor_ufima \o "\n" \o LinhasItens(Tail(itens))

texto_editavel(d) ==
    "Processo de Origem: " \o d.processo_origem \o "\n"
        \o "NL: " \o d.numero_nl \o "\n"
        \o "CGM do Sujeito Passivo: " \o d.cgm \o "\n"
        \o "Matricula do Imovel: " \o d.matricula \o "\n"
        \o "\n"
        \o "Lancamentos:\n"
        \o LinhasItens(d.itens)

(***************************************************************************)
(* parse_texto_editado (lines 553-583).  RE_PROC, RE_NL, RE_CGM and RE_MAT *)
(* are case-sensitive; RE_ITEM has re.IGNORECASE.                          *)
(***************************************************************************)
ExactAt(s, i, lit) == Slice(s, i, i + Len(lit) - 1) = lit

\* The leftmost occurrence of the literal, or NoMatch.
Find(s, lit) ==
    LET at == {i \in 1..Len(s) : ExactAt(s, i, lit)}
    IN  IF at = {} THEN NoMatch ELSE Min(at)

\* label\s*(.+) searched in s, then group(1).strip(); "" without a match.
\* \s* is greedy and also takes line breaks.  When a non-space character
\* follows it, the group is the rest of that character's line.  When only
\* whitespace is left up to the end of the text, the group can only hold
\* whitespace given back by \s* and strips to "", as does the absence of
\* a match.
RestOfLine(s, label) ==
    LET i == Find(s, label)
        q == SkipSpaces(s, i + Len(label))
    IN  IF i = NoMatch \/ q > Len(s) THEN ""
        ELSE Strip(Slice(s, q, Min({k \in q..Len(s) : Ch(s, k) = "\n"}
                                       \cup {Len(s) + 1}) - 1),
                   Whitespace)

\* NL:\s*([0-9]+/[0-9]{4}): the group of the leftmost match, else "".
NlAt(s, i) ==
    LET q == SkipSpaces(s, i + 3)
        d == CountDigits(s, q)
    IN  IF /\ ExactAt(s, i, "NL:")
           /\ d >= 1 /\ Ch(s, q + d) = "/" /\ DigitsAt(s, q + d + 1, 4)
        THEN Slice(s, q, q + d + 4) ELSE ""

SearchNl(s) ==
    LET at == {i \in 1..Len(s) : NlAt(s, i) # ""}
    IN  IF at = {} THEN "" ELSE Strip(NlAt(s, Min(at)), Whitespace)

\* CGM do Sujeito Passivo:\s*([0-9\.]+): the group of the leftmost match.
RECURSIVE RunOf(_, _, _)
RunOf(s, i, chars) == IF Ch(s, i) \in chars THEN 1 + RunOf(s, i + 1, chars) ELSE 0

CgmAt(s, i) ==
    LET q == SkipSpaces(s, i + Len("CGM do Sujeito Passivo:"))
    IN  IF ExactAt(s, i, "CGM do Sujeito Passivo:")
        THEN Slice(s, q, q + RunOf(s, q, Digits \cup {"."}) - 1) ELSE ""

SearchCgm(s) ==
    LET at == {i \in 1..Len(s) : CgmAt(s, i) # ""}
    IN  IF at = {} THEN "" ELSE Strip(CgmAt(s, Min(at)), Whitespace)

\* re.sub(r"\D", "", cgm)
RECURSIVE OnlyDigits(_)
OnlyDigits(s) ==
    IF s = "" THEN ""
    ELSE (IF IsDigit(Head(s)) THEN Head(s) ELSE "") \o OnlyDigits(Tail(s))

\* str.splitlines(): "\r\n" is one break, no empty line after a final break.
RECURSIVE SplitFrom(_, _)
SplitFrom(s, i) ==
    IF i > Len(s) THEN <<>>
    ELSE LET b == Min({k \in i..Len(s) : Ch(s, k) \in {"\n", "\r", "\f"}}
                          \cup {Len(s) + 1})
             next == IF Ch(s, b) = "\r" /\ Ch(s, b + 1) = "\n"
                     THEN b + 2 ELSE b + 1
         IN  <<Slice(s, i, b - 1)>> \o SplitFrom(s, next)

splitlines(s) == SplitFrom(s, 1)

\* RE_ITEM after the description, from p to the end of the line:
\* \s*\|\s*R\$\s*REAL\s*\|\s*[\d\.,]+\s*UFIMA\(s\)\s*$
\* [\d\.,]+ takes every digit, dot and comma (whitespace or UFIMA follows).
ItemGroups(ln, c, d, f) ==
    LET g == IF f = NoMatch \/ RunOf(ln, f, Digits \cup {".", ","}) = 0
             THEN NoMatch
             ELSE f + RunOf(ln, f, Digits \cup {".", ","})
    IN  [ok |-> AfterSpaces(ln, AfterLit(ln, AfterSpaces(ln, g), "ufima(s)"))
                    = Len(ln) + 1,
         rs |-> Slice(ln, c, d - 1),
         uf |-> Slice(ln, f, g - 1)]

ItemTail(ln, p) ==
    LET c == AfterSpaces(ln,
                 AfterLit(ln, AfterSpaces(ln,
                     AfterLit(ln, AfterSpaces(ln, p), "|")), "r$"))
        d == AfterReal(ln, c)
        f == AfterSpaces(ln, AfterLit(ln, AfterSpaces(ln, d), "|"))
    IN  ItemGroups(ln, c, d, f)

\* (?P<desc>.+?) is lazy: the shortest description the rest matches after.
DescLens(ln) == {k \in 1..Len(ln) : ItemTail(ln, k + 1).ok}

\* Lines 572-578: the item of a stripped line that matches RE_ITEM.
ItemRecord(ln, k, m) ==
    NLItem(Strip(Slice(ln, 1, k), Whitespace),
           "R$ " \o m.rs,
           Replace(m.uf, ".", ",") \o " UFIMA(s)")

ItemAt(ln, k) == ItemRecord(ln, k, ItemTail(ln, k + 1))

ItemOf(ln) == ItemAt(ln, Min(DescLens(ln)))

\* Lines 570-578: the items of the lines, in line order.
RECURSIVE ItensOf(_)
ItensOf(lines) ==
    IF lines = <<>> THEN <<>>
    ELSE LET ln == Strip(Head(lines), Whitespace)
         IN  (IF DescLens(ln) # {} THEN <<ItemOf(ln)>> ELSE <<>>)
                 \o ItensOf(Tail(lines))

\* Lines 564-578: the locals before the validation.
Campos(s) ==
    [proc  |-> RestOfLine(s, "Processo de Origem:"),
     nl    |-> SearchNl(s),
     cgm   |-> OnlyDigits(SearchCgm(s)),
     mat   |-> RestOfLine(s, "Matricula do Imovel:"),
     itens |-> ItensOf(splitlines(s))]

\* A validation that does not look at the subject id.
IncompletoSemCgm(c) == c.proc = "" \/ c.nl = "" \/ c.itens = <<>>

\* Line 580: not (proc and nl and cgm and itens)
Incompleto(c) == c.proc = "" \/ c.nl = "" \/ c.cgm = "" \/ c.itens = <<>>

\* Lines 580-583: raise RuntimeError, or return the record.
Resultado(c) ==
    IF Incompleto(c) THEN [raised |-> TRUE, data |-> NoData]
    ELSE [raised |-> FALSE,
          data   |-> NLData(c.proc, c.nl, c.cgm, c.mat, c.itens)]

parse_texto_editado(s) == Resultado(Campos(s))

(***************************************************************************)
(* PDFParser._parse_header_fields (lines 120-148) and PDFParser.parse      *)
(* (lines 197-210), on the text read_text returns.                         *)
(***************************************************************************)
\* [:\s]*([\d\.\,]+) after the label that ends before c: the group, "" when
\* the label or the group is missing.
NumeroApos(s, c) ==
    IF c = NoMatch THEN ""
    ELSE Slice(s, c + RunOf(s, c, Whitespace \cup {":"}),
               c + RunOf(s, c, Whitespace \cup {":"})
                 + RunOf(s, c + RunOf(s, c, Whitespace \cup {":"}),
                         Digits \cup {".", ","}) - 1)

\* Processo\s+de\s+Origem[:\s]*([\d\.\,]+) at i: the group, else "".
ProcessoOrigemAt(s, i) ==
    NumeroApos(s, AfterLit(s, AfterSpaces1(s,
                      AfterLit(s, AfterSpaces1(s,
                          AfterLit(s, i, "processo")), "de")), "origem"))

\* PROCESSO\s+ADMINISTRATIVO\s*[:\s]*([\d\.\,]+) at i: the group, else "".
ProcessoAdmAt(s, i) ==
    NumeroApos(s, AfterLit(s, AfterSpaces1(s, AfterLit(s, i, "processo")),
                           "administrativo"))

\* N[ºo]\s+(\d+/\d{4}) at i: the group, else "".
NumeroBarraAno(s, q, d) ==
    IF q # NoMatch /\ d >= 1 /\ Ch(s, q + d) = "/" /\ DigitsAt(s, q + d + 1, 4)
    THEN Slice(s, q, q + d + 4) ELSE ""

NumeroNlAt(s, i) ==
    NumeroBarraAno(s, AfterSpaces1(s, AfterLit(s, i, "no")),
                   CountDigits(s, AfterSpaces1(s, AfterLit(s, i, "no"))))

\* re.search and group(1).strip() for each pattern: the group of the
\* leftmost match, "" without one.
\* groups[i] is the group of the match at i, "" where the pattern does not
\* match.
FirstGroup(groups) ==
    IF \A i \in DOMAIN groups : groups[i] = "" THEN ""
    ELSE Strip(groups[Min({i \in DOMAIN groups : groups[i] # ""})], Whitespace)

SearchProcessoOrigem(s) ==
    FirstGroup([i \in 1..Len(s) |-> ProcessoOrigemAt(s, i)])

SearchProcessoAdm(s) ==
    FirstGroup([i \in 1..Len(s) |-> ProcessoAdmAt(s, i)])

SearchNumeroNl(s) ==
    FirstGroup([i \in 1..Len(s) |-> NumeroNlAt(s, i)])

\* re.findall(r"\d{n,}", s)[-1]: the last run of at least n digits, or "".
LastDigits(s, n) ==
    LET at == {i \in 1..Len(s) : /\ IsDigit(Ch(s, i))
                                 /\ ~IsDigit(Ch(s, i - 1))
                                 /\ CountDigits(s, i) >= n}
    IN  IF at = {} THEN "" ELSE Slice(s, Max(at), Max(at) + CountDigits(s, Max(at)) - 1)

\* Lines 133-138: the last run of four digits within 120 characters of the
\* first CGM\s*[:]* tag.
CgmFrom(s, at) ==
    LET a == SkipSpaces(s, Min(at) + 3)
        e == a + RunOf(s, a, {":"})
    IN  IF at = {} THEN "" ELSE Strip(LastDigits(Slice(s, e, e + 119), 4), Whitespace)

CgmHeader(s) == CgmFrom(s, {i \in 1..Len(s) : LitAt(s, i, "cgm")})

\* MATRICULA\s+IM[ÓO]VEL\s*[:]* at i: the position after it, else NoMatch.
MatriculaTagEnd(s, i) ==
    LET b == AfterSpaces(s,
                 AfterLit(s, AfterSpaces1(s, AfterLit(s, i, "matricula")), "imovel"))
    IN  IF b = NoMatch THEN NoMatch ELSE b + RunOf(s, b, {":"})

\* Lines 140-147: the last run of two digits on the first non-blank line of
\* the 100 characters after the first tag.
MatriculaLinha(tail) ==
    IF \A k \in 1..Len(tail) : Strip(tail[k], Whitespace) = "" THEN ""
    ELSE LastDigits(Strip(tail[Min({k \in 1..Len(tail) :
                                      Strip(tail[k], Whitespace) # ""})],
                          Whitespace), 2)

MatriculaFrom(s, ends) ==
    LET e == ends[Min({i \in DOMAIN ends : ends[i] # NoMatch})]
    IN  IF \A i \in DOMAIN ends : ends[i] = NoMatch THEN ""
        ELSE MatriculaLinha(splitlines(Slice(s, e, e + 99)))

MatriculaHeader(s) ==
    MatriculaFrom(s, [i \in 1..Len(s) |-> MatriculaTagEnd(s, i)])

_parse_header_fields(text) ==
    [processo  |-> IF SearchProcessoOrigem(text) # ""
                   THEN SearchProcessoOrigem(text)
                   ELSE SearchProcessoAdm(text),
     nl        |-> SearchNumeroNl(text),
     cgm       |-> CgmHeader(text),
     matricula |-> MatriculaHeader(text)]

\* Lines 200-209: the record built from the header fields and the rows.
MakeData(hdr, rs) ==
    NLData(hdr.processo, hdr.nl, hdr.cgm, hdr.matricula,
           [x \in 1..Len(rs) |-> NLItem(rs[x][1], rs[x][2], rs[x][3])])

\* parse after read_text: header fields, window, line items.
parse(raw) ==
    MakeData(_parse_header_fields(raw),
             _extract_tributos_only(_recorte_janela(raw)))

(***************************************************************************)
(* ECidadeBot (lines 215-415): the procedure-code lookup, the due date and *)
(* the forms lancar submits.                                               *)
(***************************************************************************)
\* Lines 217-226: the table, in the dict's insertion order.
PROC_MAP ==
    << <<"ISS - Mao de Obra", "24">>,
       <<"ISS - Demolicao", "24">>,
       <<"ISS - Reforma", "24">>,
       <<"ISS - Responsavel Tecnico", "36">>,
       <<"Taxa de Obras - Vistoria Residencial", "103">>,
       <<"Taxa de Obras - Vistoria Comercial", "103">>,
       <<"Taxas de Obras", "28">>,
       <<"Taxas de Obras - Renovacao de Alvara", "28">> >>

\* Lines 325-340.  proc_map[k] and proc_map.get(k, "") are the code of the
\* entry whose key is k.
_procedencia_for(descricao, proc_map) ==
    LET desc == Lower(Strip(descricao, Whitespace))
        keys == 1..Len(proc_map)
        Get(k) == IF \E i \in keys : proc_map[i][1] = k
                  THEN proc_map[CHOOSE i \in keys : proc_map[i][1] = k][2]
                  ELSE ""
        pre == {i \in keys :
                   ExactAt(desc, 1, Lower(Strip(proc_map[i][1], Whitespace)))}
        sub == {i \in keys :
                   Find(desc, Lower(Strip(proc_map[i][1], Whitespace))) # NoMatch}
    IN  IF pre # {} THEN proc_map[Min(pre)][2]
        ELSE IF /\ Find(desc, "iss") # NoMatch
                /\ \E i \in keys : Lower(proc_map[i][1]) = "iss - mao de obra"
             THEN Get("ISS - Mao de Obra")
        ELSE IF sub # {} THEN proc_map[Min(sub)][2]
        ELSE IF Find(desc, "taxa") # NoMatch \/ Find(desc, "taxas de obras") # NoMatch
             THEN Get("Taxas de Obras")
        ELSE ""

\* A dt.date is its proleptic Gregorian ordinal, as date.toordinal() gives
\* it: day 1 is 0001-01-01, a Monday.  base + dt.timedelta(days=n) is the
\* date of ordinal base + n.
toordinal(y, m, d) ==
    LET before == <<0, 31, 59, 90, 120, 151, 181, 212, 243, 273, 304, 334, 365>>
        leap == y % 4 = 0 /\ (y % 100 # 0 \/ y % 400 = 0)
    IN  365 * (y - 1) + (y - 1) \div 4 - (y - 1) \div 100 + (y - 1) \div 400
            + before[m] + (IF m > 2 /\ leap THEN 1 ELSE 0) + d

\* date.weekday(): Monday is 0, Saturday 5, Sunday 6.
weekday(date) == (date + 6) % 7

\* A variant that rolls a Saturday forward and leaves a Sunday alone.
AjustaSomenteSabado(base, dias) ==
    IF weekday(base + dias) = 5 THEN base + dias + 2 ELSE base + dias

\* Lines 304-312.
_ajusta_vencimento(base, dias) ==
    IF weekday(base + dias) = 5 THEN base + dias + 2
    ELSE IF weekday(base + dias) = 6 THEN base + dias + 1
    ELSE base + dias

\* Lines 314-316: f"{d.day:02d}{d.month:02d}{d.year:04d}".
_data_ddmmyyyy_sem_barra(date) ==
    LET y == CHOOSE y \in (date \div 366)..(date \div 365 + 1) :
                 toordinal(y, 1, 1) <= date /\ date < toordinal(y + 1, 1, 1)
        m == CHOOSE m \in 1..12 :
                 toordinal(y, m, 1) <= date /\ date < toordinal(y, m + 1, 1)
        d == date - toordinal(y, m, 1) + 1
        Dig(k) == Ch("0123456789", (k % 10) + 1)
    IN  Dig(d \div 10) \o Dig(d) \o Dig(m \div 10) \o Dig(m)
            \o Dig(y \div 1000) \o Dig(y \div 100) \o Dig(y \div 10) \o Dig(y)

\* Lines 318-323.
_normaliza_valor_brasil(valor_rs) ==
    Replace(Strip(Replace(valor_rs, "R$", ""), Whitespace), ".", "")

\* Lines 358-385: the form fields typed for one item, by element id; hoje
\* is the date read at line 371 and venc the date logged at line 375.
Formulario(dados, item, proc_code, dia) ==
    [z_numcgm       |-> dados.cgm,
     dv05_procdiver |-> proc_code,
     hoje           |-> dia,
     venc           |-> _ajusta_vencimento(dia, IF proc_code = "24" THEN 30 ELSE 20),
     dv05_privenc   |-> _data_ddmmyyyy_sem_barra(
                            _ajusta_vencimento(dia, IF proc_code = "24" THEN 30 ELSE 20)),
     dv05_vlrhis    |-> _normaliza_valor_brasil(item.valor_rs),
     dv05_obs       |-> "Processo de Origem: " \o dados.processo_origem \o "\n"
                            \o "NL: " \o dados.numero_nl \o "\n"
                            \o "Matricula do Imovel: " \o dados.matricula \o "\n"
                            \o item.descricao \o " | " \o item.valor_rs \o " | "
                            \o item.valor_ufima]

\* Lines 352-415: lancar(dados), started on the date dia.  The items from
\* number virada on are handled after midnight; falha is the item during
\* which a wait on the browser times out (0: none does).  The run stops at
\* the first item with no procedure code or with a timeout, and raises;
\* the forms of the items before it were submitted.
lancar(dados, dia, virada, falha) ==
    LET n == Len(dados.itens)
        code == [k \in 1..n |-> _procedencia_for(dados.itens[k].descricao, PROC_MAP)]
        stop == Min({k \in 1..n : code[k] = "" \/ k = falha} \cup {n + 1})
    IN  [raised |-> stop <= n,
         forms  |-> [k \in 1..(stop - 1) |->
                        Formulario(dados, dados.itens[k], code[k],
                                   IF k >= virada THEN dia + 1 ELSE dia)]]

(***************************************************************************)
(* Bounded input texts: every concatenation of at most n pieces.           *)
(***************************************************************************)
RECURSIVE Texts(_, _)
Texts(pieces, n) ==
    IF n = 0 THEN {""}
    ELSE LET shorter == Texts(pieces, n - 1)
         IN  shorter \cup {t \o p : t \in shorter, p \in pieces}

MaxRepairPieces == 4

RepairTexts ==
    Texts({"R$", "R$ 1", " ", "\t", "\n", "1", "2,34", "234,56", "1.234,56", ".234,56"},
          MaxRepairPieces)

(***************************************************************************)
(* Text Repair applied once and then again to its own output.              *)
(***************************************************************************)
InitRepair ==
    /\ pc = "start"
    /\ texto \in RepairTexts
    /\ RepairIdle
    /\ PdfIdle
    /\ EditIdle
    /\ UiIdle
    /\ BotIdle

FixOnce ==
    /\ pc = "start"
    /\ reparado' = _fix_numbers_glitches(texto)
    /\ pc' = "once"
    /\ UNCHANGED <<texto, reparado2, pdfVars, editVars, uiVars, botVars>>

FixTwice ==
    /\ pc = "once"
    /\ reparado2' = _fix_numbers_glitches(reparado)
    /\ pc' = "twice"
    /\ UNCHANGED <<texto, reparado, pdfVars, editVars, uiVars, botVars>>

NextRepair == FixOnce \/ FixTwice

SpecRepair == InitRepair /\ [][NextRepair]_vars

(***************************************************************************)
(* C6: Text Repair is idempotent -- a second pass leaves the output of the *)
(* first unchanged.                                                        *)
(***************************************************************************)
C6_Idempotent == pc = "twice" => reparado2 = reparado

(***************************************************************************)
(* The Window Extractor applied to a raw text.                             *)
(***************************************************************************)
MaxJanelaPieces == 3

JanelaTexts ==
    Texts({"Valor da UFIMA Corrente: R$ 5,00\n",
           "valor da ufima corrente : 5,00 r$\n",
           "Total Geral R$ 1.200,00 240,0 UFIMA(s)\n",
           "Total Geral R$ 1 200,00 240,0 UFIMA\n",
           "ISS - Demolicao R$ 1.200,00 240,0 UFIMA(s)\n",
           "Total Geral  R$ 10,00 \n"},
          MaxJanelaPieces)

InitJanela ==
    /\ pc = "start"
    /\ texto \in JanelaTexts
    /\ RepairIdle
    /\ PdfIdle
    /\ EditIdle
    /\ UiIdle
    /\ BotIdle

Recorte ==
    /\ pc = "start"
    /\ janela' = _recorte_janela(texto)
    /\ pc' = "janela"
    /\ UNCHANGED <<texto, repairVars, matches, rows, editVars, uiVars, botVars>>

NextJanela == Recorte

SpecJanela == InitJanela /\ [][NextJanela]_vars

\* Every position where an anchor pattern matches.
IniStartsRS(s) == {i \in 1..Len(s) : IniEndRS(s, i) # NoMatch}

IniStartsSR(s) == {i \in 1..Len(s) : IniEndSR(s, i) # NoMatch}

FimStarts(s) == {i \in 1..Len(s) : FimEnd(s, i) # NoMatch}

\* The end of the first start-anchor match: of the currency-first form when
\* it occurs at all, else of the number-first form.
FirstIniEnd(s) ==
    IF IniStartsRS(s) # {} THEN IniEndRS(s, Min(IniStartsRS(s)))
    ELSE IniEndSR(s, Min(IniStartsSR(s)))

(***************************************************************************)
(* C4: the window is a true substring only when both anchors are found in  *)
(* the repaired text; it then runs from the end of the first start-anchor  *)
(* match to the end of the end-anchor occurrence that starts last, so an   *)
(* earlier "Total Geral" never truncates it; otherwise it is the whole     *)
(* repaired text.                                                          *)
(***************************************************************************)
C4_WindowToLastTotal ==
    pc = "janela" =>
        LET s == _fix_numbers_glitches(texto)
        IN  IF (IniStartsRS(s) \cup IniStartsSR(s)) # {} /\ FimStarts(s) # {}
            THEN janela = Slice(s, FirstIniEnd(s) + 1, FimEnd(s, Max(FimStarts(s))))
            ELSE janela = s

\* Both anchors found, the end anchor twice, and the window reaches past the
\* first of them.
C4_Witness ==
    LET s == _fix_numbers_glitches(texto)
    IN  /\ pc = "janela"
        /\ (IniStartsRS(s) \cup IniStartsSR(s)) # {}
        /\ Cardinality(FimStarts(s)) >= 2
        /\ FirstIniEnd(s) < Min(FimStarts(s))
        /\ Len(janela) > FimEnd(s, Min(FimStarts(s))) - FirstIniEnd(s)
        /\ janela # s

(***************************************************************************)
(* C5 as stated: when the end anchor does not occur in the input text, the *)
(* window equals the full input text.                                      *)
(***************************************************************************)
C5_WindowIsInput ==
    (pc = "janela" /\ FimStarts(texto) = {}) => janela = texto

(***************************************************************************)
(* C5 amended: when the end anchor does not occur in the repaired text     *)
(* (whether or not the start anchor does), the window equals the repaired  *)
(* text.                                                                   *)
(***************************************************************************)
C5_WindowIsRepairedText ==
    (pc = "janela" /\ FimStarts(_fix_numbers_glitches(texto)) = {})
        => janela = _fix_numbers_glitches(texto)

\* No end anchor, a start anchor, and a repair that changed the text.
C5_Witness ==
    LET s == _fix_numbers_glitches(texto)
    IN  /\ pc = "janela"
        /\ FimStarts(s) = {}
        /\ IniStartsRS(s) # {}
        /\ janela = s
        /\ s # texto

(***************************************************************************)
(* The Line-Item Extractor applied to a window text.                       *)
(***************************************************************************)
MaxTributosPieces == 3

TributosTexts ==
    Texts({"ISS - Mao de Obra R$ 50,00 1,0 UFIMA(s)\n",
           "ISS - Mao de Obra R$ 50,00 1,00000 UFIMA(s)\n",
           "iss - mao de obra R$ 50,00 2,00000 UFIMA(s)\n",
           "Taxas de Obras R$ 1 200,00 240.5 UFIMA\n",
           "Outra Taxa R$ 100,00 5,0 UFIMA(s)\n",
           "Taxa de Obras - Habite-se R$ 10,00 2,0 UFIMA(s)\n",
           "Tributos para Lancamento  Valor em R$ Valor em UFIMA(s)\n",
           "ISS - Reforma\n"},
          MaxTributosPieces)

InitTributos ==
    /\ pc = "start"
    /\ texto \in TributosTexts
    /\ RepairIdle
    /\ PdfIdle
    /\ EditIdle
    /\ UiIdle
    /\ BotIdle

Extract ==
    /\ pc = "start"
    /\ matches' = AllowedMatches(texto)
    /\ rows' = RowsOf(matches')
    /\ pc' = "rows"
    /\ UNCHANGED <<texto, repairVars, janela, editVars, uiVars, botVars>>

NextTributos == Extract

SpecTributos == InitTributos /\ [][NextTributos]_vars

\* The dedup key of a returned row and the matches that collide on it.
RowKey(row) == <<Lower(row[1]), row[2]>>

Group(row) == {m \in Range(matches) : Key(m) = RowKey(row)}

Longest(g) == {m \in g : \A o \in g : Len(m.uf) >= Len(o.uf)}

Earliest(g) == CHOOSE m \in g : \A o \in g : m.pos <= o.pos

(***************************************************************************)
(* C7: every returned description, compared case-insensitively, starts     *)
(* with "iss -" or is one of the four allowed "taxa(s) de obras" labels;   *)
(* no other monetary line is returned.                                     *)
(***************************************************************************)
C7_AllowList ==
    pc = "rows" =>
        \A x \in 1..Len(rows) :
            LET d == Lower(rows[x][1])
            IN  \/ Slice(d, 1, 5) = "iss -"
                \/ d \in {"taxas de obras",
                           "taxa de obras - vistoria residencial",
                           "taxa de obras - vistoria comercial",
                           "taxas de obras - renovacao de alvara"}

\* A window with a line the pattern does not match ("Outra Taxa"), a line
\* it matches but the allow-list rejects ("Habite-se") and an allowed line:
\* only the last is returned.
C7_Witness ==
    /\ pc = "rows"
    /\ texto = "Outra Taxa R$ 100,00 5,0 UFIMA(s)\n"
                   \o "Taxa de Obras - Habite-se R$ 10,00 2,0 UFIMA(s)\n"
                   \o "ISS - Mao de Obra R$ 50,00 1,0 UFIMA(s)\n"
    /\ rows = << <<"ISS - Mao de Obra", "R$ 50,00", "1,0 UFIMA(s)">> >>

(***************************************************************************)
(* C8: no two returned rows share (lower-cased description, currency       *)
(* amount); every key among the allowed matches is returned once, with     *)
(* the match whose units string is longest and, among the longest, the one *)
(* occurring earliest in the text.                                         *)
(***************************************************************************)
C8_Dedup ==
    pc = "rows" =>
        /\ \A x, y \in 1..Len(rows) :
               x # y => RowKey(rows[x]) # RowKey(rows[y])
        /\ \A m \in Range(matches) :
               \E x \in 1..Len(rows) : RowKey(rows[x]) = Key(m)
        /\ \A x \in 1..Len(rows) :
               LET k == Earliest(Longest(Group(rows[x])))
               IN  rows[x] = <<k.desc, k.rs, k.uf>>

\* Three matches of one key: units "2,00000" first, then "1,0", then
\* "1,00000"; the earliest of the two longest is kept.
C8_Witness ==
    /\ pc = "rows"
    /\ Len(matches) = 3
    /\ matches[1].uf = "2,00000 UFIMA(s)"
    /\ matches[2].uf = "1,0 UFIMA(s)"
    /\ matches[3].uf = "1,00000 UFIMA(s)"
    /\ rows = << <<"iss - mao de obra", "R$ 50,00", "2,00000 UFIMA(s)">> >>

(***************************************************************************)
(* C9 as stated: the rows are in ascending order of the position of the    *)
(* FIRST occurrence of their keys, whichever occurrence was kept.          *)
(***************************************************************************)
FirstPos(row) == Min({m.pos : m \in Group(row)})

KeptPos(row) == Earliest(Longest(Group(row))).pos

C9_FirstOccurrenceOrder ==
    pc = "rows" =>
        \A x, y \in 1..Len(rows) :
            x < y => FirstPos(rows[x]) < FirstPos(rows[y])

\* A key seen first, another key, then the first key again with longer
\* units: the rows follow the kept occurrences and the first key is listed
\* last.
C9_Witness ==
    /\ pc = "rows"
    /\ Len(rows) = 2
    /\ FirstPos(rows[2]) < FirstPos(rows[1])
    /\ KeptPos(rows[1]) < KeptPos(rows[2])

(***************************************************************************)
(* The editable text: a record is rendered, the user may edit the text,   *)
(* and parse_texto_editado reads it back.                                  *)
(***************************************************************************)
MaxItens == 2

\* Items as _extract_tributos_only returns them.
ItemPool ==
    {NLItem("ISS - Reforma", "R$ 1.200,00", "240,0 UFIMA(s)"),
     NLItem("Taxas de Obras", "R$ 50,00", "1,00000 UFIMA(s)"),
     NLItem("ISS - Mao de Obra", "R$ 50,00", "10,5 UFIMA(s)")}

\* The item lists of at most n different items.
RECURSIVE ItemLists(_)
ItemLists(n) ==
    IF n = 0 THEN {<<>>}
    ELSE LET shorter == ItemLists(n - 1)
         IN  shorter \cup UNION {{Append(l, it) : it \in ItemPool \ Range(l)} :
                                     l \in shorter}

Records ==
    {NLData(p, n, c, m, l) :
        p \in {"", "12.345/2024"}, n \in {"", "7/2025"}, c \in {"", "4321"},
        m \in {"", "55"}, l \in ItemLists(MaxItens)}

\* Lines the user may type into the text area.
Palette ==
    {"ISS - Reforma | R$ 1,00 | 1.2.3 UFIMA(s)",
     "Taxas de Obras|r$ 9,99|3 ufima(S)  ",
     "Outra Taxa R$ 100,00 5,0 UFIMA(s)",
     "CGM do Sujeito Passivo: ...",
     ""}

RECURSIVE JoinLines(_)
JoinLines(lines) ==
    IF lines = <<>> THEN "" ELSE Head(lines) \o "\n" \o JoinLines(Tail(lines))

\* The texts one edit away from s: a line replaced, deleted or appended,
\* or the text cut after its first lines.
Edits(s) ==
    LET lines == splitlines(s)
        n == Len(lines)
    IN  {JoinLines([lines EXCEPT ![k] = p]) : k \in 1..n, p \in Palette}
            \cup {JoinLines(SubSeq(lines, 1, k - 1) \o SubSeq(lines, k + 1, n)) :
                    k \in 1..n}
            \cup {JoinLines(Append(lines, p)) : p \in Palette}
            \cup {JoinLines(SubSeq(lines, 1, k)) : k \in 0..n}

InitEditado ==
    /\ pc = "data"
    /\ texto = ""
    /\ data \in Records
    /\ campos = NoCampos
    /\ data_editada = NotCalled
    /\ RepairIdle
    /\ PdfIdle
    /\ UiIdle
    /\ BotIdle

\* Lines 484-492.
RenderTexto ==
    /\ pc = "data"
    /\ texto' = texto_editavel(data)
    /\ pc' = "rendered"
    /\ UNCHANGED <<repairVars, pdfVars, editVars, uiVars, botVars>>

\* Lines 494-498: the user edits the text area.
EditarTexto ==
    /\ pc = "rendered"
    /\ texto' \in Edits(texto) \ {texto}
    /\ pc' = "edited"
    /\ UNCHANGED <<repairVars, pdfVars, editVars, uiVars, botVars>>

\* Line 513: parse_texto_editado(texto_editado).
ParseEditado ==
    /\ pc \in {"rendered", "edited"}
    /\ campos' = Campos(texto)
    /\ data_editada' = Resultado(campos')
    /\ pc' = IF pc = "rendered" THEN "parsed" ELSE "parsed_edit"
    /\ UNCHANGED <<texto, data, repairVars, pdfVars, uiVars, botVars>>

NextEditado == RenderTexto \/ EditarTexto \/ ParseEditado

SpecEditado == InitEditado /\ [][NextEditado]_vars

Parsed == pc \in {"parsed", "parsed_edit"}

\* C1: a record with non-empty process id, notice number and subject id
\* and at least one item, rendered to the editable text and parsed back
\* unedited, comes back equal in every field, items in the same order.
C1_RoundTrip ==
    (/\ pc = "parsed"
     /\ data.processo_origem # ""
     /\ data.numero_nl # ""
     /\ data.cgm # ""
     /\ data.itens # <<>>)
        => data_editada = [raised |-> FALSE, data |-> data]

\* C2: parse_texto_editado raises exactly when, after parsing, the process
\* id, the notice number, the subject id (non-digits removed) or the item
\* list is empty; otherwise it returns the record of the parsed fields.  A
\* text with no "Lancamentos:" section and no item line is rejected.
C2_StrictValidation ==
    Parsed =>
        /\ data_editada.raised <=>
               (\/ campos.proc = ""
                \/ campos.nl = ""
                \/ campos.cgm = ""
                \/ campos.itens = <<>>)
        /\ ~data_editada.raised =>
               data_editada.data =
                   NLData(campos.proc, campos.nl, campos.cgm, campos.mat,
                          campos.itens)
        /\ (Find(texto, "Lancamentos:") = NoMatch /\ Find(texto, "|") = NoMatch)
               => data_editada.raised

\* A record with items whose text lost the section and every item line,
\* rejected for the missing items alone.
C2_Witness ==
    /\ pc = "parsed_edit"
    /\ data.itens # <<>>
    /\ data.processo_origem # ""
    /\ Find(texto, "Lancamentos:") = NoMatch
    /\ Find(texto, "|") = NoMatch
    /\ campos.proc # "" /\ campos.nl # "" /\ campos.cgm # ""
    /\ data_editada.raised

\* \d+(,\d{1,5})? UFIMA\(s\) matches the whole string.
IsCanonUnits(u) ==
    LET d1 == CountDigits(u, 1)
        d2 == CountDigits(u, d1 + 2)
        rest == IF Ch(u, d1 + 1) = "," /\ d2 >= 1 /\ d2 <= 5
                THEN d1 + 2 + d2 ELSE d1 + 1
    IN  d1 >= 1 /\ Slice(u, rest, Len(u)) = " UFIMA(s)"

\* C10: every item produced by _extract_tributos_only and every item
\* produced by parse_texto_editado has amount units of the canonical form:
\* digits, optionally a comma and one to five digits, then " UFIMA(s)".
C10_CanonicalUnits ==
    /\ \A x \in 1..Len(rows) : IsCanonUnits(rows[x][3])
    /\ \A x \in 1..Len(data_editada.data.itens) :
           IsCanonUnits(data_editada.data.itens[x].valor_ufima)

(***************************************************************************)
(* main (lines 421-550): the Streamlit page.  Every action is one run of   *)
(* the script, started by one user interaction.                            *)
(***************************************************************************)
MaxCliques == 4

\* Uploaded files: read_text returns the text of a readable one and raises
\* on the other.
PdfFiles ==
    {[legivel |-> TRUE,
      texto   |-> "NOTIFICACAO DE LANCAMENTO No 7/2025\n"
                      \o "Processo de Origem: 12.345\n"
                      \o "CGM: 4321\n"
                      \o "MATRICULA IMOVEL: 55\n"
                      \o "Valor da UFIMA Corrente: R$ 5,00\n"
                      \o "ISS - Reforma R$ 1 200,00 240,0 UFIMA(s)\n"
                      \o "Taxas de Obras R$ 50,00 10,0 UFIMA(s)\n"
                      \o "Total Geral R$ 1.250,00 250,0 UFIMA(s)\n"],
     [legivel |-> TRUE,
      texto   |-> "NOTIFICACAO DE LANCAMENTO No 8/2025\n"
                      \o "Processo de Origem: 99\n"
                      \o "CGM: 1234\n"],
     [legivel |-> FALSE, texto |-> ""]}

\* parser.parse(pdf_file) for each readable file.
Extraido == [f \in {g \in PdfFiles : g.legivel} |-> parse(f.texto)]

\* What the user may leave in the text area while d is shown: the rendered
\* text, the text cut after its header lines, the text with one more item.
Edicoes(d) ==
    LET lines == splitlines(texto_editavel(d))
    IN  {texto_editavel(d),
         JoinLines(SubSeq(lines, 1, 4)),
         JoinLines(Append(lines, "Taxas de Obras|r$ 9,99|3 ufima(S)  "))}

\* The calls of lines 529-533, in order.
Passos == <<"start", "login", "navegar_para_inclusao", "lancar">>

InitMain ==
    /\ pc = "main"
    /\ texto = ""
    /\ RepairIdle
    /\ PdfIdle
    /\ EditIdle
    /\ UiIdle
    /\ BotIdle

\* Lines 441-443: the user types the credentials.
DigitarCredenciais ==
    /\ \E u \in {"", "fiscal"}, s \in {"", "segredo"} :
           /\ <<u, s>> # <<usuario, senha>>
           /\ usuario' = u
           /\ senha' = s
    /\ mensagem' = ""
    /\ UNCHANGED <<pc, texto, repairVars, pdfVars, editVars, botVars, data_atual,
                   texto_editado, confirmar_lancamento, logs, bot, cliques>>

\* Lines 449-462: a file is uploaded and the import button clicked.  The
\* text area keeps what the user typed while its value= argument stays the
\* same; a run that returns before drawing it drops what was typed.
Importar ==
    /\ \E f \in PdfFiles :
           IF f.legivel
           THEN /\ data_atual' = Extraido[f]
                /\ texto_editado' = IF data_atual' = data_atual THEN texto_editado
                                    ELSE texto_editavel(data_atual')
                /\ mensagem' = "extraido"
           ELSE /\ data_atual' = data_atual
                /\ texto_editado' = IF data_atual = None THEN ""
                                    ELSE texto_editavel(data_atual)
                /\ mensagem' = "erro_pdf"
    /\ UNCHANGED <<pc, texto, repairVars, pdfVars, editVars, botVars,
                   confirmar_lancamento, usuario, senha, logs, bot, cliques>>

\* Lines 494-498: the user edits the text area.
Editar ==
    /\ data_atual # None
    /\ texto_editado' \in Edicoes(data_atual) \ {texto_editado}
    /\ mensagem' = ""
    /\ UNCHANGED <<pc, texto, repairVars, pdfVars, editVars, botVars, data_atual,
                   confirmar_lancamento, usuario, senha, logs, bot, cliques>>

\* A launch click that looks at the confirmation flag before the text.
EtapaConfirmaAntes(u, s, r, confirmado) ==
    IF u = "" \/ s = "" THEN "erro_credenciais"
    ELSE IF confirmado THEN "lancar"
    ELSE IF r.raised THEN "erro_texto"
    ELSE "aviso_confirmacao"

\* A launch click that asks for no confirmation.
EtapaSemAviso(u, s, r, confirmado) ==
    IF u = "" \/ s = "" THEN "erro_credenciais"
    ELSE IF r.raised THEN "erro_texto"
    ELSE "lancar"

\* Lines 507-525: what a launch click comes to, given the credentials, the
\* result r of parse_texto_editado and the confirmation flag.
Etapa(u, s, r, confirmado) ==
    IF u = "" \/ s = "" THEN "erro_credenciais"
    ELSE IF r.raised THEN "erro_texto"
    ELSE IF ~confirmado THEN "aviso_confirmacao"
    ELSE "lancar"

\* Lines 506-543: the launch button is clicked.  The bot's steps run in
\* order until one raises; each logs as it starts.  The first n steps are
\* entered; start, login or navegar_para_inclusao raises when it is the
\* last one entered, and lancar does what it does on the parsed record.
ClickLancar ==
    /\ data_atual # None
    /\ cliques < MaxCliques
    /\ cliques' = cliques + 1
    /\ LET etapa == Etapa(usuario, senha, parse_texto_editado(texto_editado),
                          confirmar_lancamento)
       IN  CASE etapa = "aviso_confirmacao" ->
                  /\ confirmar_lancamento' = TRUE
                  /\ mensagem' = etapa
                  /\ UNCHANGED <<logs, bot, botVars>>
             [] etapa = "lancar" ->
                  /\ confirmar_lancamento' = FALSE
                  /\ \E n \in 1..Len(Passos) :
                         /\ bot' = bot \o SubSeq(Passos, 1, n)
                         /\ logs' = logs \o SubSeq(Passos, 1, n)
                         /\ IF n < Len(Passos)
                            THEN /\ mensagem' = "erro_automacao"
                                 /\ UNCHANGED botVars
                            ELSE \E d \in {parse_texto_editado(texto_editado).data} :
                                 \E falha \in 0..Len(d.itens) :
                                 \E r \in {lancar(d, toordinal(2024, 2, 5),
                                                  Len(d.itens) + 1, falha)} :
                                     /\ hoje' = toordinal(2024, 2, 5)
                                     /\ lancamentos' = lancamentos \o r.forms
                                     /\ mensagem' = IF r.raised
                                                    THEN "erro_automacao"
                                                    ELSE "sucesso"
             [] OTHER ->
                  /\ mensagem' = etapa
                  /\ UNCHANGED <<confirmar_lancamento, logs, bot, botVars>>
    /\ UNCHANGED <<pc, texto, repairVars, pdfVars, editVars, data_atual,
                   texto_editado, usuario, senha>>

\* Lines 545-550: Limpar Tudo.
Limpar ==
    /\ data_atual' = None
    /\ logs' = <<>>
    /\ confirmar_lancamento' = FALSE
    /\ texto_editado' = ""
    /\ mensagem' = ""
    /\ UNCHANGED <<pc, texto, repairVars, pdfVars, editVars, botVars, usuario, senha,
                   bot, cliques>>

NextMain == DigitarCredenciais \/ Importar \/ Editar \/ ClickLancar \/ Limpar

SpecMain == InitMain /\ [][NextMain]_vars

\* C3: a launch click whose edited text parse_texto_editado rejects shows a
\* rejection message and starts no bot step, whatever the confirmation
\* flag; with credentials filled in, the message is the text rejection.
C3_NoBotOnInvalidText ==
    [][(cliques' = cliques + 1 /\ parse_texto_editado(texto_editado).raised)
          => /\ bot' = bot
             /\ logs' = logs
             /\ mensagem' \in {"erro_credenciais", "erro_texto"}
             /\ (usuario # "" /\ senha # "") => mensagem' = "erro_texto"]_vars

\* A click rejected for its text while the confirmation flag was set.
C3_Witness ==
    /\ mensagem = "erro_texto"
    /\ confirmar_lancamento
    /\ parse_texto_editado(texto_editado).raised
    /\ cliques >= 2

\* C13: the bot starts only on a launch click made while the confirmation
\* flag was set, and that click clears the flag; the flag is set only by a
\* launch click that passed the credential and text checks, showed the
\* warning and started no bot step; so every run has its own earlier
\* warning-only click (twice as many clicks as runs, at least), and Limpar
\* Tudo leaves the flag cleared and no record loaded.
C13_TwoStepConfirmation ==
    /\ [][(bot' # bot =>
               /\ cliques' = cliques + 1
               /\ confirmar_lancamento
               /\ ~confirmar_lancamento')
          /\ ((~confirmar_lancamento /\ confirmar_lancamento') =>
               /\ cliques' = cliques + 1
               /\ usuario # "" /\ senha # ""
               /\ ~parse_texto_editado(texto_editado).raised
               /\ mensagem' = "aviso_confirmacao"
               /\ bot' = bot
               /\ lancamentos' = lancamentos)
          /\ (Limpar => (~confirmar_lancamento' /\ data_atual' = None))]_vars
    /\ [](2 * Cardinality({i \in DOMAIN bot : bot[i] = "start"}) <= cliques)

\* Two runs of the automation: warning, run, warning, run.
C13_Witness ==
    /\ cliques = 4
    /\ Cardinality({i \in DOMAIN bot : bot[i] = "start"}) = 2
    /\ ~confirmar_lancamento
    /\ Len(lancamentos) >= 2

(***************************************************************************)
(* ECidadeBot.lancar (lines 352-415) called on a record, as line 533 does  *)
(* once the page is logged in and on the inclusion screen.                 *)
(***************************************************************************)
MaxLancamentos == 2

\* The lists of one to n items whose descriptions are taken from descs.
RECURSIVE ItensDe(_, _)
ItensDe(descs, n) ==
    IF n = 0 THEN {<<>>}
    ELSE {<<NLItem(d, "R$ 1.200,00", "240,0 UFIMA(s)")>> \o l :
              d \in descs, l \in ItensDe(descs, n - 1)}

\* The record is any parse_texto_editado accepts: the descriptions are what
\* the user left in the text area.  The dates are the days of two weeks.
InitLancar ==
    /\ pc = "lancar"
    /\ texto = ""
    /\ \E n \in 1..MaxLancamentos :
           \E l \in ItensDe({"ISS - Reforma", "iss - demolicao de muro",
                             "Taxa de Obras - Vistoria Comercial",
                             "Outra Taxa", "Comissao de Obra", "Alvara"}, n) :
               data = NLData("12.345", "7/2025", "4321", "55", l)
    /\ campos = NoCampos
    /\ data_editada = NotCalled
    /\ hoje \in {toordinal(2024, 2, 5) + k : k \in 0..6}
                 \cup {toordinal(2025, 12, 8) + k : k \in 0..6}
    /\ lancamentos = <<>>
    /\ RepairIdle
    /\ PdfIdle
    /\ UiIdle

\* Line 533: bot.lancar(data_editada).
ChamarLancar ==
    /\ pc = "lancar"
    /\ \E virada \in 1..(Len(data.itens) + 1), falha \in 0..Len(data.itens) :
           \E r \in {lancar(data, hoje, virada, falha)} :
               /\ lancamentos' = r.forms
               /\ pc' = IF r.raised THEN "raised" ELSE "done"
    /\ logs' = Append(logs, "lancar")
    /\ bot' = Append(bot, "lancar")
    /\ UNCHANGED <<texto, repairVars, pdfVars, editVars, data_atual,
                   texto_editado, confirmar_lancamento, usuario, senha,
                   mensagem, cliques, hoje>>

NextLancar == ChamarLancar

SpecLancar == InitLancar /\ [][NextLancar]_vars

\* C11: every form lancar submits carries the code of the first table key
\* (in table order) that is a case-insensitive prefix of the item's
\* stripped description, and an item of which no key is a prefix is never
\* submitted: lancar raises at it.
C11_PrefixOrFatal ==
    LET Prefixes(desc) ==
            {i \in 1..Len(PROC_MAP) :
                ExactAt(Lower(Strip(desc, Whitespace)), 1,
                        Lower(Strip(PROC_MAP[i][1], Whitespace)))}
        unmatched == {k \in 1..Len(data.itens) :
                         Prefixes(data.itens[k].descricao) = {}}
    IN  pc \in {"done", "raised"} =>
            /\ \A k \in 1..Len(lancamentos) :
                   /\ k \notin unmatched
                   /\ lancamentos[k].dv05_procdiver
                          = PROC_MAP[Min(Prefixes(data.itens[k].descricao))][2]
            /\ unmatched # {} => pc = "raised"

\* An item of which no key is a prefix was submitted, with the code of
\* "Taxas de Obras".
C11_Witness ==
    /\ pc = "done"
    /\ \E k \in 1..Len(lancamentos) :
           /\ data.itens[k].descricao = "Outra Taxa"
           /\ lancamentos[k].dv05_procdiver = "28"

\* C12: for every form submitted, the due date is the date read for the
\* item plus 30 days when the item's code is "24" and plus 20 days
\* otherwise, rolled forward to the Monday when that date is a Saturday
\* (+2) or a Sunday (+1); it is never a Saturday or a Sunday, never before
\* the unadjusted date and never more than 2 days after it.
C12_DueDate ==
    \A k \in 1..Len(lancamentos) :
        LET f == lancamentos[k]
            alvo == f.hoje + (IF f.dv05_procdiver = "24" THEN 30 ELSE 20)
        IN  /\ f.hoje \in {hoje, hoje + 1}
            /\ f.venc = alvo + (IF weekday(alvo) = 5 THEN 2
                                ELSE IF weekday(alvo) = 6 THEN 1 ELSE 0)
            /\ weekday(f.venc) \notin {5, 6}
            /\ f.venc >= alvo
            /\ f.venc <= alvo + 2

\* Two forms of one run: an ISS item whose thirtieth day is a Saturday, due
\* on the Monday, and another item read after midnight, due on its
\* twentieth day.
C12_Witness ==
    /\ pc = "done"
    /\ Len(lancamentos) = 2
    /\ lancamentos[1].dv05_procdiver = "24"
    /\ lancamentos[1].hoje = hoje
    /\ weekday(hoje + 30) = 5
    /\ lancamentos[1].venc = hoje + 32
    /\ lancamentos[2].dv05_procdiver # "24"
    /\ lancamentos[2].hoje = hoje + 1
    /\ lancamentos[2].venc = hoje + 21

=============================================================================
